---- MODULE Spec2Model ----
(***************************************************************************)
(* A model of the four WebAssembly modules under rust-modules/:            *)
(*   data-engine      DataEngine       (row store, aggregation, filter)    *)
(*   query-optimizer  QueryEngine      (row store, execute/explain query)  *)
(*   chart-renderer   ChartProcessor   (series, chunks, downsampling)      *)
(*   parallel-compute ParallelProcessor (sum of squares over sub-ranges)   *)
(*                                                                         *)
(* The objects share no state.  A behaviour of SpecEngine follows one row  *)
(* engine (a DataEngine or a QueryEngine), one of SpecChart follows one    *)
(* ChartProcessor and one of SpecParallel one ParallelProcessor.           *)
(* SpecBuckets follows single iterations of the loop of downsample on a    *)
(* ChartProcessor whose series may be longer than 2^24 points; there the   *)
(* series is represented by its length, the only thing the bucket          *)
(* boundaries depend on.                                                   *)
(*                                                                         *)
(* Numbers.  f64 and f32 values that the code only adds, compares or       *)
(* divides are modelled by the exact value they stand for: an integer, or  *)
(* a rational [num, den] in lowest terms (den = 0 is NaN).  All values of  *)
(* the rows, points and buffers of the model are far below 2^24, so sums   *)
(* and products of integers are exact in either float type.  The f32       *)
(* arithmetic that decides the bucket boundaries of downsample is modelled *)
(* bit-exactly (F32Of, F32Div, F32MulInt), for series of any length below  *)
(* 2^30.                                                                   *)
(***************************************************************************)
EXTENDS Integers, Sequences, FiniteSets, TLC

VARIABLES
    kind,        \* which object this behaviour follows
    data,        \* the object's `data` field: rows, points or buffer values
    chunk_size,  \* ChartProcessor.chunk_size
    result,      \* what the last call returned, with its arguments
    good,        \* history: rows of the most recent text that is a valid row array
    covered,     \* history: buffer indices covered by the sub-range calls so far
    partial      \* history: the caller's running sum of the sub-range results

vars == <<kind, data, chunk_size, result, good, covered, partial>>

(***************************************************************************)
(* Bounds of the model.                                                    *)
(***************************************************************************)
MaxRows == 3        \* longest row array in a loaded text
MaxDataSize == 7    \* largest data_size a ChartProcessor is built with
MaxChunkSize == 4   \* largest chunk_size a ChartProcessor is built with
MaxIndex == 8       \* largest chunk_index and target_points of a call
MaxSize == 5        \* largest size a ParallelProcessor is built with

(***************************************************************************)
(* Generic helpers.                                                        *)
(***************************************************************************)
Min(a, b) == IF a < b THEN a ELSE b

RECURSIVE Gcd(_, _)
Gcd(a, b) == IF b = 0 THEN a ELSE Gcd(b, a % b)

\* The float a / b for integers a >= 0, b >= 0, as an exact rational in
\* lowest terms; 0.0 / 0.0 is NaN (den = 0), x / 0.0 with x > 0 is +inf.
FDiv(a, b) ==
    IF b = 0 THEN [num |-> IF a = 0 THEN 0 ELSE 1, den |-> 0]
    ELSE [num |-> a \div Gcd(a, b), den |-> b \div Gcd(a, b)]

RECURSIVE SeqSum(_)
SeqSum(s) == IF s = <<>> THEN 0 ELSE Head(s) + SeqSum(Tail(s))

\* All orderings of a finite set, as sequences without repetition.
Perms(S) ==
    {p \in [1..Cardinality(S) -> S] : \A i, j \in DOMAIN p : i # j => p[i] # p[j]}

(***************************************************************************)
(* Rows and JSON texts.                                                    *)
(*                                                                         *)
(* A JSON text is modelled by its syntax tree: either a text that is not   *)
(* an array of objects ("garbage"), or an array of objects, each a record  *)
(* from field names to JSON values <<type, value>>.                        *)
(***************************************************************************)
DataRow(id, category, sales, region) ==
    [id |-> id, category |-> category, sales |-> sales, region |-> region]

JNum(n) == <<"num", n>>
JStr(s) == <<"str", s>>

JsonRow(id, category, sales, region) ==
    [id |-> JNum(id), category |-> JStr(category), sales |-> JNum(sales),
     region |-> JStr(region)]

\* The objects a text may hold: three that match the row schema (the third
\* with a field the schema does not name), one with a field missing and one
\* with sales of the wrong type.
JsonObjects ==
    { JsonRow(1, "A", 10, "N"),
      JsonRow(2, "A", 20, "S"),
      [id |-> JNum(3), category |-> JStr("B"), sales |-> JNum(5),
       region |-> JStr("N"), note |-> JStr("x")],
      [id |-> JNum(4), category |-> JStr("B"), sales |-> JNum(7)],
      [id |-> JNum(5), category |-> JStr("A"), sales |-> JStr("12"),
       region |-> JStr("S")] }

JsonTexts ==
    {[kind |-> "garbage", items |-> <<>>]} \cup
    {[kind |-> "array", items |-> s] :
        s \in UNION {[1..n -> JsonObjects] : n \in 0..MaxRows}}

\* serde's derived Deserialize for DataRow: every field must be present with
\* its type (id: u32, sales: f64, category, region: String); a field the
\* struct does not name is skipped (the struct does not deny unknown fields).
FieldOk(obj, name, type) ==
    /\ name \in DOMAIN obj
    /\ obj[name][1] = type
    /\ (name = "id" => obj[name][2] >= 0)

RowDecodes(obj) ==
    /\ FieldOk(obj, "id", "num")
    /\ FieldOk(obj, "category", "str")
    /\ FieldOk(obj, "sales", "num")
    /\ FieldOk(obj, "region", "str")

RowOf(obj) == DataRow(obj.id[2], obj.category[2], obj.sales[2], obj.region[2])

Ok(v) == [ok |-> TRUE, value |-> v]
Err == [ok |-> FALSE, value |-> <<>>]

\* serde_json::from_str::<Vec<DataRow>>: elements are decoded left to right
\* into a fresh vector; the first element that does not decode ends the call
\* with Err and the vector built so far is dropped.
RECURSIVE DecodeItems(_, _)
DecodeItems(items, acc) ==
    IF items = <<>> THEN Ok(acc)
    ELSE IF ~RowDecodes(Head(items)) THEN Err
    ELSE DecodeItems(Tail(items), Append(acc, RowOf(Head(items))))

SerdeFromStr(text) ==
    IF text.kind # "array" THEN Err ELSE DecodeItems(text.items, <<>>)

\* A load_data that empties the store before it decodes the text.
LoadedData_ClearsFirst(old, text) ==
    LET parsed == SerdeFromStr(text)
    IN IF parsed.ok THEN parsed.value ELSE <<>>

\* load_data: `self.data = from_str(..).map_err(..)?; Ok(())`.  The `?`
\* returns before the assignment when decoding failed.
LoadedData(old, text) ==
    LET parsed == SerdeFromStr(text)
    IN IF parsed.ok THEN parsed.value ELSE old

LoadReturn(text) == IF SerdeFromStr(text).ok THEN "Ok" ELSE "Err"

\* History: what the store should hold if only whole, valid texts count.
ValidText(text) ==
    /\ text.kind = "array"
    /\ \A i \in DOMAIN text.items : RowDecodes(text.items[i])

RowsOfText(text) == [i \in DOMAIN text.items |-> RowOf(text.items[i])]

(***************************************************************************)
(* Query texts: sequences of one-character strings.                        *)
(***************************************************************************)
UpperChars == <<"A","B","C","D","E","F","G","H","I","J","K","L","M","N","O","P","Q","R","S","T","U","V","W","X","Y","Z">>
LowerChars == <<"a","b","c","d","e","f","g","h","i","j","k","l","m","n","o","p","q","r","s","t","u","v","w","x","y","z">>
DigitChars == <<"0","1","2","3","4","5","6","7","8","9">>

IndexIn(chars, c) ==
    IF \E i \in DOMAIN chars : chars[i] = c
    THEN CHOOSE i \in DOMAIN chars : chars[i] = c
    ELSE 0

\* str::to_lowercase on the characters the query texts use.
ToLowercase(s) ==
    [i \in DOMAIN s |->
        IF IndexIn(UpperChars, s[i]) # 0 THEN LowerChars[IndexIn(UpperChars, s[i])]
        ELSE s[i]]

\* Start of the first occurrence of pat in s, 0 when there is none.
FindFirst(s, pat) ==
    LET hits == {i \in 1..(Len(s) - Len(pat) + 1) :
                    SubSeq(s, i, i + Len(pat) - 1) = pat}
    IN IF hits = {} THEN 0 ELSE CHOOSE i \in hits : \A j \in hits : i <= j

\* str::contains.
Contains(s, pat) == FindFirst(s, pat) # 0

None == [some |-> FALSE, value |-> 0]
Some(v) == [some |-> TRUE, value |-> v]

\* s.split(pat).nth(1): the piece between the first and the second occurrence
\* of pat (or the end of s); None when pat does not occur.
SplitNth1(s, pat) ==
    LET first == FindFirst(s, pat)
        rest == SubSeq(s, first + Len(pat), Len(s))
        second == FindFirst(rest, pat)
    IN IF first = 0 THEN None
       ELSE IF second = 0 THEN Some(rest)
       ELSE Some(SubSeq(rest, 1, second - 1))

IsWhitespace(c) == c \in {" ", "\t", "\n", "\r"}

\* s.split_whitespace().next(): the first maximal run of non-blank characters.
FirstToken(s) ==
    LET starts == {i \in DOMAIN s : ~IsWhitespace(s[i])}
    IN IF starts = {} THEN None
       ELSE LET b == CHOOSE i \in starts : \A j \in starts : i <= j
                ends == {i \in b..Len(s) :
                            /\ \A j \in b..i : ~IsWhitespace(s[j])
                            /\ (i = Len(s) \/ IsWhitespace(s[i + 1]))}
            IN Some(SubSeq(s, b, CHOOSE i \in ends : TRUE))

RECURSIVE DigitsValue(_, _)
DigitsValue(s, acc) ==
    IF s = <<>> THEN acc
    ELSE DigitsValue(Tail(s), 10 * acc + (IndexIn(DigitChars, Head(s)) - 1))

AllDigits(s) == s # <<>> /\ \A i \in DOMAIN s : IndexIn(DigitChars, s[i]) # 0

\* str::parse::<f64>().ok() on the tokens the query texts hold: an optional
\* sign and decimal digits give the number, every other token gives None.
ParseF64(tok) ==
    IF AllDigits(tok) THEN Some(DigitsValue(tok, 0))
    ELSE IF tok # <<>> /\ Head(tok) = "+" /\ AllDigits(Tail(tok))
        THEN Some(DigitsValue(Tail(tok), 0))
    ELSE IF tok # <<>> /\ Head(tok) = "-" /\ AllDigits(Tail(tok))
        THEN Some(0 - DigitsValue(Tail(tok), 0))
    ELSE None

\* extract_number_from_query: the `?` chain.
ExtractNumberFromQuery(query, after) ==
    LET piece == SplitNth1(query, after)
        token == FirstToken(piece.value)
    IN IF ~piece.some THEN None
       ELSE IF ~token.some THEN None
       ELSE ParseF64(token.value)

UnwrapOr(opt, default) == IF opt.some THEN opt.value ELSE default

PatWhereSales == <<"w","h","e","r","e"," ","s","a","l","e","s"," ",">">>
PatGroupByCategory == <<"g","r","o","u","p"," ","b","y"," ","c","a","t","e","g","o","r","y">>
PatGroupByRegion == <<"g","r","o","u","p"," ","b","y"," ","r","e","g","i","o","n">>
PatWhere == <<"w","h","e","r","e">>
PatGroupBy == <<"g","r","o","u","p"," ","b","y">>
PatOrderBy == <<"o","r","d","e","r"," ","b","y">>

\* Pieces the query texts of the model are put together from.
TxtSelect == <<"S","E","L","E","C","T"," ","*">>
TxtWhereSalesUpper == <<" ","W","H","E","R","E"," ","s","a","l","e","s"," ",">">>
TxtWhereId == <<" ","w","h","e","r","e"," ","i","d">>
TxtOrderByX == <<" ","O","r","d","e","r"," ","b","y"," ","x">>
TxtGroupByZ == <<" ","g","r","o","u","p"," ","b","y"," ","z">>

\* The query texts execute_query and explain_query are called with.
Queries ==
    << TxtSelect \o TxtWhereSalesUpper \o <<" ","1","0">>,
       TxtSelect \o TxtWhereSalesUpper \o <<"="," ","1","0">>,
       TxtSelect \o TxtWhereSalesUpper \o <<"1","5"," ">> \o PatGroupByCategory,
       TxtSelect \o <<" ">> \o PatGroupByRegion,
       TxtSelect \o <<" ">> \o PatGroupByRegion \o <<" ">> \o PatGroupByCategory,
       TxtSelect,
       TxtSelect \o <<" ">> \o PatGroupByCategory \o TxtOrderByX,
       TxtSelect \o TxtOrderByX \o TxtGroupByZ \o TxtWhereId >>

(***************************************************************************)
(* Aggregation.                                                            *)
(***************************************************************************)
\* The HashMap loop of the three aggregate functions: for each row,
\* entry(key).or_insert((0, 0.0)), then count += 1 and total += sales.
AccumulateInit == [count |-> 0, total |-> 0]

\* An accumulation that overwrites the total with the row's sales.
Accumulate_Overwrites(entry, row) ==
    [count |-> entry.count + 1, total |-> row.sales]

Accumulate(entry, row) ==
    [count |-> entry.count + 1, total |-> entry.total + row.sales]

RECURSIVE AggregateLoop(_, _, _)
AggregateLoop(rows, key, agg) ==
    IF rows = <<>> THEN agg
    ELSE LET k == Head(rows)[key]
             entry == IF k \in DOMAIN agg THEN agg[k] ELSE AccumulateInit
         IN AggregateLoop(Tail(rows), key,
                [j \in DOMAIN agg \cup {k} |->
                    IF j = k THEN Accumulate(entry, Head(rows)) ELSE agg[j]])

EmptyMap == [k \in {} |-> AccumulateInit]

\* The orders in which a HashMap with these rows' keys may be iterated.
HashOrders(rows, key) == Perms(DOMAIN AggregateLoop(rows, key, EmptyMap))

\* DataEngine::aggregate_by_category; `order` is the map's iteration order.
DE_aggregate_by_category(rows, order) ==
    LET agg == AggregateLoop(rows, "category", EmptyMap)
    IN [i \in DOMAIN order |->
            [category |-> order[i],
             count |-> agg[order[i]].count,
             total_sales |-> agg[order[i]].total,
             avg_sales |-> FDiv(agg[order[i]].total, agg[order[i]].count)]]

\* QueryEngine::aggregate_by_category.
QE_aggregate_by_category(rows, order) ==
    LET agg == AggregateLoop(rows, "category", EmptyMap)
    IN [i \in DOMAIN order |->
            [category |-> order[i],
             total_sales |-> agg[order[i]].total,
             count |-> agg[order[i]].count,
             avg_sales |-> FDiv(agg[order[i]].total, agg[order[i]].count)]]

\* QueryEngine::aggregate_by_region.
QE_aggregate_by_region(rows, order) ==
    LET agg == AggregateLoop(rows, "region", EmptyMap)
    IN [i \in DOMAIN order |->
            [region |-> order[i],
             total_sales |-> agg[order[i]].total,
             count |-> agg[order[i]].count,
             avg_sales |-> FDiv(agg[order[i]].total, agg[order[i]].count)]]

\* DataEngine::filter_by_sales; iter().filter(..).collect() is SelectSeq: the
\* rows that pass, in store order.
DE_filter_by_sales(rows, min_sales) ==
    LET Keep(row) == row.sales >= min_sales
    IN SelectSeq(rows, Keep)

(***************************************************************************)
(* QueryEngine::execute_query and explain_query.                           *)
(***************************************************************************)
\* An if / else-if chain that tests the two group-by clauses before the filter
\* and the region before the category.
QE_Classify_GroupByFirst(query) ==
    LET query_lower == ToLowercase(query)
    IN IF Contains(query_lower, PatGroupByRegion)
       THEN [intent |-> "region", threshold |-> 0]
       ELSE IF Contains(query_lower, PatGroupByCategory)
       THEN [intent |-> "category", threshold |-> 0]
       ELSE IF Contains(query_lower, PatWhereSales)
       THEN [intent |-> "filter",
             threshold |->
                UnwrapOr(ExtractNumberFromQuery(query_lower, PatWhereSales), 0)]
       ELSE [intent |-> "scan", threshold |-> 0]

\* The conditions of execute_query's if / else-if chain, over the lower-cased
\* text, with the threshold the filter branch extracts.
QE_Classify(query) ==
    LET query_lower == ToLowercase(query)
    IN IF Contains(query_lower, PatWhereSales)
       THEN [intent |-> "filter",
             threshold |->
                UnwrapOr(ExtractNumberFromQuery(query_lower, PatWhereSales), 0)]
       ELSE IF Contains(query_lower, PatGroupByCategory)
       THEN [intent |-> "category", threshold |-> 0]
       ELSE IF Contains(query_lower, PatGroupByRegion)
       THEN [intent |-> "region", threshold |-> 0]
       ELSE [intent |-> "scan", threshold |-> 0]

\* The branch each query text of the model takes.
QueryBranch == [q \in DOMAIN Queries |-> QE_Classify(Queries[q])]

\* A filter branch that keeps the rows equal to the threshold as well.
QE_FilterKeeps_Inclusive(row, threshold) == row.sales >= threshold

\* The predicate of the filter branch of execute_query.
QE_FilterKeeps(row, threshold) == row.sales > threshold

\* The orders in which the HashMap of the branch taken may be iterated.
BranchOrders(rows, branch) ==
    IF branch.intent = "category" THEN HashOrders(rows, "category")
    ELSE IF branch.intent = "region" THEN HashOrders(rows, "region")
    ELSE {<<>>}

\* The bodies of the four branches of execute_query.
QE_ResultRows(rows, branch, order) ==
    IF branch.intent = "filter"
    THEN LET Keep(row) == QE_FilterKeeps(row, branch.threshold)
         IN SelectSeq(rows, Keep)
    ELSE IF branch.intent = "category" THEN QE_aggregate_by_category(rows, order)
    ELSE IF branch.intent = "region" THEN QE_aggregate_by_region(rows, order)
    ELSE rows

\* A rows_scanned that counts the rows returned.
QE_RowsScanned_Returned(rows, result_rows) == Len(result_rows)

\* The rows_scanned field of the QueryResult.
QE_RowsScanned(rows, result_rows) == Len(rows)

\* execute_query; execution_time_ms, the difference of two readings of the
\* host clock, is left out of the result.
QE_execute_query(rows, branch, order) ==
    LET result_rows == QE_ResultRows(rows, branch, order)
    IN [rows |-> result_rows,
        rows_scanned |-> QE_RowsScanned(rows, result_rows)]

PlanStep(operation, cost, rows_estimated) ==
    [operation |-> operation, cost |-> cost, rows_estimated |-> rows_estimated]

\* The name of the first plan step.
ParseStepName == "Parse SQL"

\* Plan tests that look for the filter pattern of execute_query.
QE_PlanTests_FilterPattern(query) ==
    LET query_lower == ToLowercase(query)
    IN [filter |-> Contains(query_lower, PatWhereSales),
        aggregate |-> Contains(query_lower, PatGroupBy),
        sort |-> Contains(query_lower, PatOrderBy)]

\* The conditions of the three conditional pushes of explain_query.
QE_PlanTests(query) ==
    LET query_lower == ToLowercase(query)
    IN [filter |-> Contains(query_lower, PatWhere),
        aggregate |-> Contains(query_lower, PatGroupBy),
        sort |-> Contains(query_lower, PatOrderBy)]

\* The tests each query text of the model passes.
QueryTests == [q \in DOMAIN Queries |-> QE_PlanTests(Queries[q])]

\* explain_query: two fixed steps, then the three conditional ones.
QE_explain_query(rows, tests) ==
    <<PlanStep(ParseStepName, FDiv(1, 10), 0),
      PlanStep("Validate Schema", FDiv(1, 10), 0)>>
    \o (IF tests.filter
        THEN <<PlanStep("Filter Scan", FDiv(Len(rows), 1000), Len(rows) \div 2)>>
        ELSE <<>>)
    \o (IF tests.aggregate
        THEN <<PlanStep("Hash Aggregate", FDiv(Len(rows) * 2, 1000), 10)>>
        ELSE <<>>)
    \o (IF tests.sort
        THEN <<PlanStep("Sort", FDiv(Len(rows) * 3, 1000), 10)>>
        ELSE <<>>)

(***************************************************************************)
(* The row engines: one DataEngine or one QueryEngine per behaviour.       *)
(***************************************************************************)
\* Values filter_by_sales is called with.
MinSalesInputs == {5, 10, 15, 25}

InitEngine ==
    /\ kind \in {"DataEngine", "QueryEngine"}
    /\ data = <<>>
    /\ good = <<>>
    /\ result = [op |-> "new"]
    /\ chunk_size = 0
    /\ covered = {}
    /\ partial = 0

NotEngineVars == <<kind, chunk_size, covered, partial>>

LoadData(text) ==
    /\ data' = LoadedData(data, text)
    /\ result' = [op |-> "load_data", ret |-> LoadReturn(text),
                   valid |-> ValidText(text)]
    /\ good' = IF ValidText(text) THEN RowsOfText(text) ELSE good
    /\ UNCHANGED NotEngineVars

DE_load_data == \E text \in JsonTexts : kind = "DataEngine" /\ LoadData(text)

QE_load_data == \E text \in JsonTexts : kind = "QueryEngine" /\ LoadData(text)

DE_row_count ==
    /\ kind = "DataEngine"
    /\ result' = [op |-> "row_count", value |-> Len(data)]
    /\ UNCHANGED <<data, good>>
    /\ UNCHANGED NotEngineVars

DE_AggregateByCategory ==
    /\ kind = "DataEngine"
    /\ \E order \in HashOrders(data, "category") :
          result' = [op |-> "aggregate_by_category",
                     value |-> DE_aggregate_by_category(data, order)]
    /\ UNCHANGED <<data, good>>
    /\ UNCHANGED NotEngineVars

DE_FilterBySales ==
    /\ kind = "DataEngine"
    /\ \E min_sales \in MinSalesInputs :
          result' = [op |-> "filter_by_sales", min_sales |-> min_sales,
                     value |-> DE_filter_by_sales(data, min_sales)]
    /\ UNCHANGED <<data, good>>
    /\ UNCHANGED NotEngineVars

QE_ExecuteQuery ==
    /\ kind = "QueryEngine"
    /\ \E q \in DOMAIN Queries :
       \E order \in BranchOrders(data, QueryBranch[q]) :
          result' = [op |-> "execute_query", query |-> q,
                     value |-> QE_execute_query(data, QueryBranch[q], order)]
    /\ UNCHANGED <<data, good>>
    /\ UNCHANGED NotEngineVars

QE_ExplainQuery ==
    /\ kind = "QueryEngine"
    /\ \E q \in DOMAIN Queries :
          result' = [op |-> "explain_query", query |-> q,
                     value |-> QE_explain_query(data, QueryTests[q])]
    /\ UNCHANGED <<data, good>>
    /\ UNCHANGED NotEngineVars

NextEngine ==
    \/ DE_load_data
    \/ DE_row_count
    \/ DE_AggregateByCategory
    \/ DE_FilterBySales
    \/ QE_load_data
    \/ QE_ExecuteQuery
    \/ QE_ExplainQuery

SpecEngine == InitEngine /\ [][NextEngine]_vars

(***************************************************************************)
(* Properties of the row engines (checked under SpecEngine).               *)
(***************************************************************************)
IsEngine == kind \in {"DataEngine", "QueryEngine"}

\* The k-th smallest element of a finite set of integers.
KthOf(S, k) == CHOOSE i \in S : Cardinality({j \in S : j < i}) = k - 1

\* out holds exactly the rows whose index is in S, in store order.
IsSelection(out, rows, S) ==
    /\ Len(out) = Cardinality(S)
    /\ \A k \in DOMAIN out : out[k] = rows[KthOf(S, k)]

RECURSIVE SumSales(_, _)
SumSales(rows, S) ==
    IF S = {} THEN 0
    ELSE LET i == CHOOSE j \in S : TRUE
         IN rows[i].sales + SumSales(rows, S \ {i})

\* groups is the aggregation of rows by key: one group per key value that
\* occurs, none for other values, each with the count, the total and the
\* average (avg = total / count, stated without dividing) of its rows.
IsAggregation(groups, rows, key) ==
    /\ \A g \in DOMAIN groups : key \in DOMAIN groups[g]
    /\ {groups[g][key] : g \in DOMAIN groups} = {rows[i][key] : i \in DOMAIN rows}
    /\ \A g, h \in DOMAIN groups : groups[g][key] = groups[h][key] => g = h
    /\ \A g \in DOMAIN groups :
          LET members == {i \in DOMAIN rows : rows[i][key] = groups[g][key]}
          IN /\ groups[g].count = Cardinality(members)
             /\ groups[g].count > 0
             /\ groups[g].total_sales = SumSales(rows, members)
             /\ groups[g].avg_sales.den > 0
             /\ groups[g].avg_sales.num * groups[g].count
                    = groups[g].total_sales * groups[g].avg_sales.den
    /\ SeqSum([g \in DOMAIN groups |-> groups[g].count]) = Len(rows)

\* What the query texts of the model contain, lower-cased.
LowerQueries == [q \in DOMAIN Queries |-> ToLowercase(Queries[q])]
HasWhereSales == [q \in DOMAIN Queries |-> Contains(LowerQueries[q], PatWhereSales)]
HasGroupByCategory ==
    [q \in DOMAIN Queries |-> Contains(LowerQueries[q], PatGroupByCategory)]
HasGroupByRegion ==
    [q \in DOMAIN Queries |-> Contains(LowerQueries[q], PatGroupByRegion)]

\* The threshold written in each filter text of the model: 10 in the first,
\* none that parses in the second ("= 10"), 15 in the third.
WrittenThreshold == <<10, 0, 15>>

TheThreeRows ==
    <<DataRow(1, "A", 10, "N"), DataRow(2, "A", 20, "S"), DataRow(3, "B", 5, "N")>>

\* C1: after any sequence of loads the store holds the rows of the most
\* recent text that decodes as a whole (no rows if there was none): a load
\* of a text that does not decode returns Err and leaves the store as it
\* was, a load of one that decodes returns Ok and replaces the store.
C1_FailedLoadKeepsStore ==
    IsEngine =>
        /\ data = good
        /\ (result.op = "load_data" => (result.ret = "Err" <=> ~result.valid))
        /\ (result.op = "row_count" => result.value = Len(good))

C1_Witness ==
    /\ IsEngine
    /\ result.op = "load_data"
    /\ result.ret = "Err"
    /\ data = TheThreeRows

\* C5 as stated: a filter query returns exactly the rows with
\* sales >= threshold, in store order.
C5_FilterIsInclusive ==
    (IsEngine /\ result.op = "execute_query" /\ HasWhereSales[result.query]) =>
        IsSelection(result.value.rows, data,
            {i \in DOMAIN data : data[i].sales >= QueryBranch[result.query].threshold})

\* C5 amended: a filter query returns exactly the rows with sales strictly
\* greater than the threshold, in store order; "SELECT * WHERE sales > 10"
\* over sales 10, 20, 5 returns the one row with sales 20.
C5_FilterIsStrict ==
    (IsEngine /\ result.op = "execute_query" /\ HasWhereSales[result.query]) =>
        /\ IsSelection(result.value.rows, data,
              {i \in DOMAIN data : data[i].sales > QueryBranch[result.query].threshold})
        /\ (result.query = 1 /\ data = TheThreeRows
                => result.value.rows = <<DataRow(2, "A", 20, "S")>>)

C5_Witness ==
    /\ IsEngine
    /\ result.op = "execute_query"
    /\ result.query = 1
    /\ QueryBranch[1].threshold = 10
    /\ data = TheThreeRows
    /\ Len(result.value.rows) = 1

\* C6: execute_query runs a text as a filter if it contains "where sales >",
\* else as the category aggregation if it contains "group by category", else
\* as the region aggregation if it contains "group by region", else returns
\* every row of the store in store order.
C6_ClassifiedByPriority ==
    (IsEngine /\ result.op = "execute_query") =>
        LET q == result.query
            rows == result.value.rows
        IN IF HasWhereSales[q]
           THEN IsSelection(rows, data,
                   {i \in DOMAIN data : data[i].sales > WrittenThreshold[q]})
           ELSE IF HasGroupByCategory[q] THEN IsAggregation(rows, data, "category")
           ELSE IF HasGroupByRegion[q] THEN IsAggregation(rows, data, "region")
           ELSE rows = data

C6_Witness ==
    /\ IsEngine
    /\ result.op = "execute_query"
    /\ HasGroupByRegion[result.query] /\ HasGroupByCategory[result.query]
    /\ data = TheThreeRows
    /\ Len(result.value.rows) = 2
    /\ \A g \in DOMAIN result.value.rows : "category" \in DOMAIN result.value.rows[g]

C6_WitnessFilterFirst ==
    /\ IsEngine
    /\ result.op = "execute_query"
    /\ HasWhereSales[result.query] /\ HasGroupByCategory[result.query]
    /\ data = TheThreeRows
    /\ result.value.rows = <<DataRow(2, "A", 20, "S")>>

\* C7: rows_scanned of every execute_query result is the size of the store.
C7_RowsScannedIsStoreSize ==
    (IsEngine /\ result.op = "execute_query") =>
        result.value.rows_scanned = Len(data)

C7_Witness ==
    /\ IsEngine
    /\ result.op = "execute_query"
    /\ Len(data) = 3
    /\ Len(result.value.rows) = 1
    /\ result.value.rows_scanned = 3

\* The plan C8 describes for a text, with the given name for the first step.
PlanOf(q, n, first) ==
    <<PlanStep(first, [num |-> 1, den |-> 10], 0),
      PlanStep("Validate Schema", [num |-> 1, den |-> 10], 0)>>
    \o (IF Contains(LowerQueries[q], PatWhere)
        THEN <<PlanStep("Filter Scan", FDiv(n, 1000), n \div 2)>> ELSE <<>>)
    \o (IF Contains(LowerQueries[q], PatGroupBy)
        THEN <<PlanStep("Hash Aggregate", FDiv(2 * n, 1000), 10)>> ELSE <<>>)
    \o (IF Contains(LowerQueries[q], PatOrderBy)
        THEN <<PlanStep("Sort", FDiv(3 * n, 1000), 10)>> ELSE <<>>)

StepNames(plan) == [i \in DOMAIN plan |-> plan[i].operation]

\* C8 as stated: the plan starts with a step named "Parse".
C8_PlanStartsWithParse ==
    (IsEngine /\ result.op = "explain_query") =>
        result.value = PlanOf(result.query, Len(data), "Parse")

\* C8 amended: explain_query returns the step "Parse SQL" (cost 0.1, rows 0),
\* then "Validate Schema" (0.1, 0), then "Filter Scan" (n * 0.001, n / 2) iff
\* the lower-cased text contains "where", then "Hash Aggregate" (n * 0.002,
\* 10) iff it contains "group by", then "Sort" (n * 0.003, 10) iff it
\* contains "order by", and nothing else; a text with "group by" and
\* "order by" and no "where" gives Parse SQL, Validate Schema, Hash
\* Aggregate, Sort.
C8_PlanStartsWithParseSql ==
    (IsEngine /\ result.op = "explain_query") =>
        /\ result.value = PlanOf(result.query, Len(data), "Parse SQL")
        /\ (result.query = 7 =>
              StepNames(result.value) =
                  <<"Parse SQL", "Validate Schema", "Hash Aggregate", "Sort">>)
        /\ (result.query = 8 =>
              StepNames(result.value) =
                  <<"Parse SQL", "Validate Schema", "Filter Scan",
                    "Hash Aggregate", "Sort">>)

C8_Witness ==
    /\ IsEngine
    /\ result.op = "explain_query"
    /\ result.query = 8
    /\ Len(data) = 3
    /\ Len(result.value) = 5
    /\ result.value[3].rows_estimated = 1

\* The groups of the last call, when it was an aggregation, and their key.
IsCategoryResult ==
    \/ result.op = "aggregate_by_category"
    \/ /\ result.op = "execute_query"
       /\ ~HasWhereSales[result.query] /\ HasGroupByCategory[result.query]

IsRegionResult ==
    /\ result.op = "execute_query"
    /\ ~HasWhereSales[result.query] /\ ~HasGroupByCategory[result.query]
    /\ HasGroupByRegion[result.query]

GroupsOfResult ==
    IF result.op = "aggregate_by_category" THEN result.value ELSE result.value.rows

GroupWithKey(groups, key, k) ==
    groups[CHOOSE g \in DOMAIN groups : groups[g][key] = k]

\* C10: an aggregation emits one group per key value in the store and no
\* other, with count = number of rows with the key (> 0), total = sum of
\* their sales and average = total / count; the counts add up to row_count;
\* an empty store gives no group; (A,10), (A,20), (B,5) give A: 2, 30, 15
\* and B: 1, 5, 5.
C10_AggregationGroups ==
    (IsEngine /\ (IsCategoryResult \/ IsRegionResult)) =>
        LET key == IF IsCategoryResult THEN "category" ELSE "region"
            groups == GroupsOfResult
        IN /\ IsAggregation(groups, data, key)
           /\ (data = <<>> => groups = <<>>)
           /\ (data = TheThreeRows /\ IsCategoryResult =>
                 /\ Len(groups) = 2
                 /\ GroupWithKey(groups, key, "A").count = 2
                 /\ GroupWithKey(groups, key, "A").total_sales = 30
                 /\ GroupWithKey(groups, key, "A").avg_sales = [num |-> 15, den |-> 1]
                 /\ GroupWithKey(groups, key, "B").count = 1
                 /\ GroupWithKey(groups, key, "B").total_sales = 5
                 /\ GroupWithKey(groups, key, "B").avg_sales = [num |-> 5, den |-> 1])

C10_Witness ==
    /\ kind = "DataEngine"
    /\ result.op = "aggregate_by_category"
    /\ data = TheThreeRows
    /\ Len(result.value) = 2
    /\ result.value[1].category = "B"

C10_WitnessRegion ==
    /\ kind = "QueryEngine"
    /\ IsRegionResult
    /\ data = TheThreeRows
    /\ Len(result.value.rows) = 2

(***************************************************************************)
(* chart-renderer: f32 arithmetic.                                         *)
(*                                                                         *)
(* A finite positive f32 is [m, e], standing for m * 2^e with              *)
(* 2^23 <= m < 2^24 (24 significant bits, round to nearest, ties to even). *)
(***************************************************************************)
F32Bits == 24

RECURSIVE Pow2(_)
Pow2(k) == IF k = 0 THEN 1 ELSE 2 * Pow2(k - 1)

\* n / d rounded to the nearest integer, ties to even.
RoundHalfEven(n, d) ==
    LET q == n \div d
        r == n % d
    IN IF 2 * r < d THEN q
       ELSE IF 2 * r > d THEN q + 1
       ELSE IF q % 2 = 0 THEN q ELSE q + 1

\* [m, e] with m = 2^24 after rounding is 2^23 * 2^(e + 1).
F32Normal(m, e) ==
    IF m = Pow2(F32Bits) THEN [m |-> Pow2(F32Bits - 1), e |-> e + 1]
    ELSE [m |-> m, e |-> e]

\* The number of doublings that bring n / d into [2^23, 2^24).
RECURSIVE ShiftUp(_, _, _)
ShiftUp(n, d, k) ==
    IF n >= Pow2(F32Bits - 1) * d THEN k ELSE ShiftUp(2 * n, d, k + 1)

\* The number of halvings that bring p into [2^23, 2^24).
RECURSIVE ShiftDown(_, _)
ShiftDown(p, k) ==
    IF p < Pow2(F32Bits) * Pow2(k) THEN k ELSE ShiftDown(p, k + 1)

\* n as f32 for an integer 0 < n < 2^30: exact below 2^24, rounded to 24
\* significant bits from there on.
F32Of(n) ==
    IF n < Pow2(F32Bits)
    THEN LET k == ShiftUp(n, 1, 0) IN [m |-> n * Pow2(k), e |-> 0 - k]
    ELSE LET k == ShiftDown(n, 0) IN F32Normal(RoundHalfEven(n, Pow2(k)), k)

\* Long division: `bits` more binary digits of a quotient q with remainder r
\* of a division by d.
RECURSIVE QuotientBits(_, _, _, _)
QuotientBits(q, r, d, bits) ==
    IF bits = 0 THEN [q |-> q, r |-> r]
    ELSE IF 2 * r >= d THEN QuotientBits(2 * q + 1, 2 * r - d, d, bits - 1)
    ELSE QuotientBits(2 * q, 2 * r, d, bits - 1)

\* 1 when a quotient q with remainder r out of d rounds up (ties to even).
RoundsUp(q, r, d) ==
    IF 2 * r > d \/ (2 * r = d /\ q % 2 = 1) THEN 1 ELSE 0

\* (a as f32) / (b as f32) for integers a > 0, b > 0: the quotient of the two
\* mantissas to 24 significant bits.
F32Div(a, b) ==
    LET x == F32Of(a)
        y == F32Of(b)
        bits == IF x.m >= y.m THEN F32Bits - 1 ELSE F32Bits
        d == QuotientBits(x.m \div y.m, x.m % y.m, y.m, bits)
    IN F32Normal(d.q + RoundsUp(d.q, d.r, y.m), x.e - y.e - bits)

\* (i as f32) * f for an integer i > 0: the 48-bit product of the two
\* mantissas, hi * 2^24 + lo, from their 12-bit halves, to 24 significant bits.
F32MulInt(i, f) ==
    LET x == F32Of(i)
        half == Pow2(F32Bits \div 2)
        a1 == x.m \div half
        a0 == x.m % half
        b1 == f.m \div half
        b0 == f.m % half
        mid == a1 * b0 + a0 * b1
        low == (mid % half) * half + a0 * b0
        hi == a1 * b1 + mid \div half + low \div Pow2(F32Bits)
        lo == low % Pow2(F32Bits)
    IN IF hi >= Pow2(F32Bits - 1)
       THEN F32Normal(hi + RoundsUp(hi, lo, Pow2(F32Bits)), x.e + f.e + F32Bits)
       ELSE LET q == 2 * hi + lo \div Pow2(F32Bits - 1)
                r == lo % Pow2(F32Bits - 1)
            IN F32Normal(q + RoundsUp(q, r, Pow2(F32Bits - 1)),
                         x.e + f.e + F32Bits - 1)

\* f as usize: truncation toward zero.
F32ToUsize(f) ==
    IF f.e >= 0 THEN f.m * Pow2(f.e)
    ELSE IF 0 - f.e > F32Bits THEN 0
    ELSE f.m \div Pow2(0 - f.e)

(***************************************************************************)
(* chart-renderer: ChartProcessor.                                         *)
(***************************************************************************)
\* (i as f32 / 100.0).sin() * 50.0 + 50.0 for i = 0..16, to four decimals, in
\* units of 0.0001.
SampleY ==
    <<500000, 505000, 509999, 514998, 519995, 524990, 529982, 534971, 539957,
      544939, 549917, 554889, 559856, 564817, 569772, 574719, 579659>>

DataPoint(x, y) == [x |-> x, y |-> y]

\* ChartProcessor::new: the generated series, point i at index i + 1.
NewSeries(data_size) ==
    [k \in 1..data_size |->
        DataPoint(FDiv(k - 1, 1), FDiv(SampleY[k], 10000))]

\* The push loop of get_chunk: x then y of every point.
RECURSIVE Interleave(_)
Interleave(points) ==
    IF points = <<>> THEN <<>>
    ELSE <<Head(points).x, Head(points).y>> \o Interleave(Tail(points))

Returned(v) == [status |-> "ok", value |-> v]
Panicked == [status |-> "panic", value |-> <<>>]

\* ChartProcessor::chunk_count.  With chunk_size = 0 the call panics in every
\* build: on the subtraction when the series is empty and overflow checks are
\* on, on the division by zero otherwise.
\* A chunk count without the "- 1" of the rounding term.
ChunkCountValue_NoMinusOne(len, size) == (len + size) \div size

ChunkCountValue(len, size) == (len + size - 1) \div size

ChartChunkCount(series, size) ==
    IF size = 0 THEN Panicked ELSE Returned(ChunkCountValue(Len(series), size))

\* ChartProcessor::get_chunk.
ChartGetChunk(series, size, chunk_index) ==
    LET start == chunk_index * size
        end == Min(start + size, Len(series))
    IN IF start >= Len(series) THEN <<>>
       ELSE Interleave(SubSeq(series, start + 1, end))

RECURSIVE SumNum(_)
SumNum(values) ==
    IF values = <<>> THEN 0 ELSE Head(values).num + SumNum(Tail(values))

\* iter().map(|p| p.x).sum() / n as f32 and the same for y, over a bucket of
\* generated points: x is an integer, y a multiple of 0.0001.
BucketMean(bucket) ==
    <<FDiv(SumNum([i \in DOMAIN bucket |-> bucket[i].x]), Len(bucket)),
      FDiv(SumNum([i \in DOMAIN bucket |->
                      FDiv(bucket[i].y.num * (10000 \div bucket[i].y.den), 1)]),
           10000 * Len(bucket))>>

\* The bucket of iteration i of the for loop of downsample.
BucketStart(bucket_size, i) == F32ToUsize(F32MulInt(i, bucket_size))

BucketEnd(bucket_size, i) == F32ToUsize(F32MulInt(i + 1, bucket_size))

\* The for loop of downsample from index i to last; slicing data[start..end]
\* panics when start > end or end > len.
RECURSIVE DownsampleLoop(_, _, _, _, _)
DownsampleLoop(series, bucket_size, i, last, acc) ==
    IF i > last THEN Returned(acc)
    ELSE LET start == BucketStart(bucket_size, i)
             end == BucketEnd(bucket_size, i)
         IN IF start > end \/ end > Len(series) THEN Panicked
            ELSE DownsampleLoop(series, bucket_size, i + 1, last,
                    acc \o BucketMean(SubSeq(series, start + 1, end)))

\* ChartProcessor::downsample.  With target_points = 0 (and a non-empty
\* series) the call panics in every build: `target_points - 1` overflows,
\* which panics when overflow checks are on; when they are off it wraps to
\* usize::MAX, bucket_size is len / 0.0 = +inf, start and end of the first
\* bucket saturate to usize::MAX, and the slice index is out of range.
ChartDownsample(series, size, target_points) ==
    IF target_points >= Len(series) THEN Returned(ChartGetChunk(series, size, 0))
    ELSE IF target_points = 0 THEN Panicked
    ELSE LET bucket_size == F32Div(Len(series), target_points)
             first == <<series[1].x, series[1].y>>
             last == <<series[Len(series)].x, series[Len(series)].y>>
             middle == DownsampleLoop(series, bucket_size, 1, target_points - 2, <<>>)
         IN IF middle.status = "panic" THEN Panicked
            ELSE Returned(first \o middle.value \o last)

\* History of the chart: `covered` counts the chunks fetched so far in index
\* order 0, 1, 2, ... and `partial` is their concatenation.
InitChart ==
    /\ kind = "ChartProcessor"
    /\ \E data_size \in 0..MaxDataSize : data = NewSeries(data_size)
    /\ chunk_size \in 0..MaxChunkSize
    /\ result = [op |-> "new"]
    /\ good = <<>>
    /\ covered = 0
    /\ partial = <<>>

Chart_chunk_count ==
    /\ kind = "ChartProcessor"
    /\ result' = [op |-> "chunk_count", ret |-> ChartChunkCount(data, chunk_size)]
    /\ UNCHANGED <<kind, data, chunk_size, good, covered, partial>>

Chart_get_chunk ==
    /\ kind = "ChartProcessor"
    /\ \E chunk_index \in 0..MaxIndex :
          /\ result' = [op |-> "get_chunk", chunk_index |-> chunk_index,
                        ret |-> Returned(ChartGetChunk(data, chunk_size, chunk_index))]
          /\ IF chunk_index = covered
             THEN /\ covered' = covered + 1
                  /\ partial' = partial \o ChartGetChunk(data, chunk_size, chunk_index)
             ELSE UNCHANGED <<covered, partial>>
    /\ UNCHANGED <<kind, data, chunk_size, good>>

Chart_downsample ==
    /\ kind = "ChartProcessor"
    /\ \E target_points \in 0..MaxIndex :
          result' = [op |-> "downsample", target_points |-> target_points,
                     ret |-> ChartDownsample(data, chunk_size, target_points)]
    /\ UNCHANGED <<kind, data, chunk_size, good, covered, partial>>

NextChart ==
    \/ Chart_chunk_count
    \/ Chart_get_chunk
    \/ Chart_downsample

SpecChart == InitChart /\ [][NextChart]_vars

(***************************************************************************)
(* Properties of the ChartProcessor (checked under SpecChart).              *)
(***************************************************************************)
IsChart == kind = "ChartProcessor"

\* ceil(n / c) for c >= 1, stated without dividing.
IsCeilDiv(k, n, c) == k * c >= n /\ (k - 1) * c < n /\ k >= 0

\* C3 as stated: downsample(target_points) with target_points >= series
\* length returns every point of the series, in order, for every
\* chunk_size >= 1.
C3_DownsampleReturnsFullSeries ==
    (/\ IsChart
     /\ result.op = "downsample"
     /\ result.target_points >= Len(data)
     /\ chunk_size >= 1) =>
        /\ result.ret.status = "ok"
        /\ result.ret.value = Interleave(data)
        /\ Len(result.ret.value) = 2 * Len(data)

\* C4 as stated: downsample(t) with t < series length, t = 0 and t = 1
\* included, completes and returns exactly t points, the first equal to the
\* first point of the series and the last equal to its last point.
C4_DownsampleReturnsTargetPoints ==
    (/\ IsChart
     /\ result.op = "downsample"
     /\ result.target_points < Len(data)) =>
        LET t == result.target_points
            out == result.ret.value
        IN /\ result.ret.status = "ok"
           /\ Len(out) = 2 * t
           /\ (t >= 1 =>
                 /\ SubSeq(out, 1, 2) = <<data[1].x, data[1].y>>
                 /\ SubSeq(out, 2 * t - 1, 2 * t)
                        = <<data[Len(data)].x, data[Len(data)].y>>)

\* C9: with chunk_size c >= 1 and a series of n points, chunk_count() is
\* ceil(n / c); get_chunk(i) is the non-empty slice [i*c, min((i+1)*c, n))
\* as x,y values for i < chunk_count() and empty for i >= chunk_count(); and
\* the chunks 0 .. chunk_count()-1 put one after the other are the series.
C9_ChunksTileTheSeries ==
    (IsChart /\ chunk_size >= 1) =>
        LET n == Len(data)
            c == chunk_size
            count == CHOOSE k \in 0..n : IsCeilDiv(k, n, c)
        IN /\ (result.op = "chunk_count" =>
                 /\ result.ret.status = "ok"
                 /\ IsCeilDiv(result.ret.value, n, c))
           /\ (result.op = "get_chunk" /\ result.chunk_index < count =>
                 LET i == result.chunk_index
                     hi == IF (i + 1) * c < n THEN (i + 1) * c ELSE n
                     out == result.ret.value
                 IN /\ Len(out) = 2 * (hi - i * c)
                    /\ Len(out) > 0
                    /\ \A j \in 1..(hi - i * c) :
                          /\ out[2 * j - 1] = data[i * c + j].x
                          /\ out[2 * j] = data[i * c + j].y)
           /\ (result.op = "get_chunk" /\ result.chunk_index >= count =>
                 result.ret = Returned(<<>>))
           /\ (covered >= count => partial = Interleave(data))
           /\ (covered < count => Len(partial) = 2 * covered * c)

C9_Witness ==
    /\ IsChart
    /\ Len(data) = 7
    /\ chunk_size = 3
    /\ covered = 3
    /\ result.op = "get_chunk"
    /\ result.chunk_index = 2
    /\ Len(result.ret.value) = 2
    /\ Len(partial) = 14

(***************************************************************************)
(* chart-renderer: the buckets of downsample on long series.               *)
(*                                                                         *)
(* Iteration i of the loop computes its bucket from data.len(),            *)
(* target_points and i alone, so an iteration is followed on its own:      *)
(* `data` holds the length of the series (new(data_size, _) builds         *)
(* data_size points) and `result` the bucket of the iteration followed,    *)
(* one per behaviour.  The lengths are the short ones of SpecChart and the ones     *)
(* from 2^24 up, where `as f32` starts to round; of the 1 .. target - 2    *)
(* iterations the MaxIndex first and the MaxIndex last are followed.       *)
(***************************************************************************)
SeriesLengths ==
    (3..MaxDataSize) \cup {Pow2(F32Bits) + d : d \in 0..MaxDataSize}

\* The target_points for which downsample enters its loop: 2 <= target < len.
LoopTargets(len) ==
    {t \in (2..MaxIndex) \cup ((len - MaxIndex)..(len - 1)) : 2 <= t /\ t < len}

\* for i in 1..target_points - 1
LoopIterations(target_points) ==
    {i \in (1..MaxIndex) \cup ((target_points - 1 - MaxIndex)..(target_points - 2)) :
        1 <= i /\ i <= target_points - 2}

\* Iteration i of the loop on a series of len points: the slice
\* data[start..end] panics when start > end or end > len, and the mean of an
\* empty slice is 0.0 / 0.0.
DownsampleBucket(len, target_points, i) ==
    LET bucket_size == F32Div(len, target_points)
        start == BucketStart(bucket_size, i)
        end == BucketEnd(bucket_size, i)
    IN [op |-> "bucket", target_points |-> target_points, i |-> i,
        start |-> start, end |-> end,
        mean |-> IF start > end \/ end > len THEN "panic"
                 ELSE IF start = end THEN "NaN" ELSE "number"]

InitBuckets ==
    /\ kind = "ChartProcessor.downsample"
    /\ data \in SeriesLengths
    /\ chunk_size \in 1..MaxChunkSize
    /\ result = [op |-> "new"]
    /\ good = <<>>
    /\ covered = 0
    /\ partial = <<>>

Downsample_iteration ==
    /\ kind = "ChartProcessor.downsample"
    /\ result.op = "new"
    /\ \E target_points \in LoopTargets(data) :
          \E i \in LoopIterations(target_points) :
             result' = DownsampleBucket(data, target_points, i)
    /\ UNCHANGED <<kind, data, chunk_size, good, covered, partial>>

NextBuckets == Downsample_iteration

SpecBuckets == InitBuckets /\ [][NextBuckets]_vars

(***************************************************************************)
(* Properties of the buckets of downsample (checked under SpecBuckets).     *)
(***************************************************************************)
\* C11: in downsample(target_points) with 2 <= target_points < series
\* length, the bucket [start, end) of every iteration of the loop is
\* non-empty and inside the series, 0 <= start < end <= length, so no mean
\* divides by a zero length and no slice is out of range.
C11_BucketsNonEmptyInRange ==
    (kind = "ChartProcessor.downsample" /\ result.op = "bucket") =>
        /\ 0 <= result.start
        /\ result.start < result.end
        /\ result.end <= data
        /\ result.mean = "number"

(***************************************************************************)
(* parallel-compute: ParallelProcessor.                                    *)
(*                                                                         *)
(* The buffer holds i * 0.5 for i = 0 .. size-1.  A buffer value is        *)
(* modelled by its number of halves and a sum of squares by its number of  *)
(* quarters; both are exact in f64 at the sizes of the model.              *)
(***************************************************************************)
\* ParallelProcessor::new.
NewBuffer(size) == [k \in 1..size |-> k - 1]

\* iter().map(|&x| x * x).sum().
RECURSIVE SumSquares(_)
SumSquares(values) ==
    IF values = <<>> THEN 0
    ELSE Head(values) * Head(values) + SumSquares(Tail(values))

\* A process_chunk that stops one element before the end of the range.
process_chunk_StopsEarly(buffer, start, end) ==
    LET clamped == Min(end, Len(buffer))
    IN IF start >= clamped THEN 0
       ELSE SumSquares(SubSeq(buffer, start + 1, clamped - 1))

\* ParallelProcessor::process_chunk.
process_chunk(buffer, start, end) ==
    LET clamped == Min(end, Len(buffer))
    IN IF start >= clamped THEN 0
       ELSE SumSquares(SubSeq(buffer, start + 1, clamped))

\* ParallelProcessor::process_sequential.
process_sequential(buffer) == SumSquares(buffer)

\* History of the reduction: `covered` is the set of buffer indices of the
\* sub-range calls summed so far and `partial` their sum; a call whose
\* sub-range overlaps an earlier one is not added.
InitParallel ==
    /\ kind = "ParallelProcessor"
    /\ \E size \in 0..MaxSize : data = NewBuffer(size)
    /\ chunk_size = 0
    /\ result = [op |-> "new"]
    /\ good = <<>>
    /\ covered = {}
    /\ partial = 0

Par_process_chunk ==
    /\ kind = "ParallelProcessor"
    /\ \E start \in 0..MaxSize, end \in 0..(MaxSize + 1) :
          LET range == {i \in 0..(Len(data) - 1) : start <= i /\ i < end}
              value == process_chunk(data, start, end)
          IN /\ result' = [op |-> "process_chunk", start |-> start, end |-> end,
                           value |-> value]
             /\ IF range \cap covered = {}
                THEN /\ covered' = covered \cup range
                     /\ partial' = partial + value
                ELSE UNCHANGED <<covered, partial>>
    /\ UNCHANGED <<kind, data, chunk_size, good>>

Par_process_sequential ==
    /\ kind = "ParallelProcessor"
    /\ result' = [op |-> "process_sequential", value |-> process_sequential(data)]
    /\ UNCHANGED <<kind, data, chunk_size, good, covered, partial>>

NextParallel ==
    \/ Par_process_chunk
    \/ Par_process_sequential

SpecParallel == InitParallel /\ [][NextParallel]_vars

(***************************************************************************)
(* Properties of the ParallelProcessor (checked under SpecParallel).        *)
(***************************************************************************)
\* C2: once sub-range calls over disjoint sub-ranges cover [0, n) exactly
\* once, in whatever order they were made, the sum of their results is the
\* value of process_sequential().
C2_PartitionSumsToSequential ==
    (kind = "ParallelProcessor" /\ covered = 0..(Len(data) - 1)) =>
        /\ partial = process_sequential(data)
        /\ (result.op = "process_sequential" => result.value = partial)

C2_Witness ==
    /\ kind = "ParallelProcessor"
    /\ Len(data) = 5
    /\ covered = 0..4
    /\ result.op = "process_chunk"
    /\ result.start = 1
    /\ result.end = 3
    /\ partial = 30

====
